---- MODULE Spec2Model ----
(***************************************************************************)
(* A model of the sqlite3 backend for gorilla/sessions: Store.New (lookup), *)
(* Store.Save, Store.insert, Store.save (update), Store.Delete and          *)
(* Store.load, run by concurrent request handlers that share one Store, one *)
(* sessions table and the Store's sync.RWMutex.                             *)
(*                                                                         *)
(* Time is a global integer clock; one unit stands for one second, so a     *)
(* max-age of k seconds is k units. A handler is a process with a program   *)
(* position; taking the guard and running the guarded body are separate     *)
(* steps, so every interleaving of lock acquisitions is explored.           *)
(***************************************************************************)
EXTENDS Integers, FiniteSets, Sequences, TLC

\* ---------------------------------------------------------------- bounds
MaxTime == 2        \* the clock runs 0..MaxTime
MaxId == 2          \* Save is not called when its insert would get an id above MaxId
MaxCalls == 5       \* calls of Store.New, Store.Save and Store.Delete in one behaviour

\* ------------------------------------------------------ program constants
\* Options.MaxAge of a new Store (60*60*24*14 seconds in the source), scaled
\* to the clock of the model.
StoreMaxAge == 2

Procs == {"h1", "h2"}
None == "none"
SessionName == "test"

Reserved == {"created_on", "modified_on", "expires_on"}
UserKeys == {"k"}
UserVals == {"a"}
\* max-age values a caller gives session.Options.MaxAge
CallerMaxAges == {0, 1}
\* expires_on values a caller puts in the value map
CallerExpires == {0}

EmptyMap == [k \in {} |-> 0]

Max(a, b) == IF a >= b THEN a ELSE b

\* ------------------------------------------------------------ value maps
\* session.Values[k] of Go: nil when the key is absent.
Has(m, k) == k \in DOMAIN m

\* m[k] = v
Put(m, k, v) == [x \in (DOMAIN m) \cup {k} |-> IF x = k THEN v ELSE m[x]]

\* delete(m, k)
Del(m, k) == [x \in (DOMAIN m) \ {k} |-> m[x]]

\* the three delete(session.Values, ...) calls of insert and save
StripNone(m) == m
StripReserved(m) == Del(Del(Del(m, "created_on"), "expires_on"), "modified_on")

\* ----------------------------------------------------------------- codec
\* securecookie.EncodeMulti(name, value, codecs...): a token that binds the
\* name and the serialised value under a MAC.
EncodeMulti(name, v) == [name |-> name, payload |-> v, mac |-> "ok"]

\* A token the codec rejects (tampered, or not produced by this store).
BadToken == [name |-> SessionName, payload |-> "", mac |-> "bad"]

\* securecookie.DecodeMulti(name, token, &dst, codecs...): err == nil
DecodeOk(name, tok) == tok.mac = "ok" /\ tok.name = name
DecodeMulti(name, tok) == tok.payload

\* fmt.Sprintf("%d", id) for the ids of the model
Digits == <<"1", "2", "3", "4", "5", "6", "7", "8", "9">>
Sprintf(id) == Digits[id]

\* The id a statement parameter of Go type string selects in the INTEGER
\* PRIMARY KEY column: its numeric value, 0 (no row) when it is not a number.
ParamId(s) == IF \E i \in 1..Len(Digits) : Digits[i] = s
              THEN CHOOSE i \in 1..Len(Digits) : Digits[i] = s
              ELSE 0

\* ------------------------------------------------------------------ state
VARIABLES
    now,        \* time.Now()
    rows,       \* the sessions table: id -> row, for the ids that have a row
    mu,         \* Store.mu: the handler holding it exclusively, and the readers
    pc,         \* where each handler is
    sess,       \* each handler's *sessions.Session
    err,        \* the error the handler's last call of the Store returned
    resp,       \* the Set-Cookie the last Save or Delete wrote on the response
    jar,        \* every session cookie a client was ever sent
    calls,      \* calls of Store.New, Store.Save and Store.Delete so far
    last,       \* history: what the handler's last call did
    saved       \* history: id -> value map of the last successful Save for id

vars == <<now, rows, mu, pc, sess, err, resp, jar, calls, last, saved>>

\* sessions.NewSession(store, name) followed by New's Options and IsNew
NewSession == [ID |-> "", IsNew |-> TRUE, Values |-> EmptyMap, MaxAge |-> StoreMaxAge]

NoCookie == [set |-> FALSE, value |-> BadToken, maxAge |-> 0]
\* http.SetCookie(w, sessions.NewCookie(name, value, options))
SetCookie(value, maxAge) == [set |-> TRUE, value |-> value, maxAge |-> maxAge]
\* the cookie value "" that Delete writes
EmptyValue == [name |-> SessionName, payload |-> "", mac |-> "none"]

\* op: what the call did; exOn: the expires_on it read (load: from the row,
\* insert and save: from the value map; -1 when there was none); hit: the
\* statement found a row
NoHistory == [op |-> "none", exOn |-> -1, hit |-> FALSE]
History(op, exOn, hit) == [op |-> op, exOn |-> exOn, hit |-> hit]

Init ==
    /\ now = 0
    /\ rows = EmptyMap
    /\ mu = [writer |-> None, readers |-> {}]
    /\ pc = [p \in Procs |-> "idle"]
    /\ sess = [p \in Procs |-> NewSession]
    /\ err = [p \in Procs |-> "nil"]
    /\ resp = [p \in Procs |-> NoCookie]
    /\ jar = {}
    /\ calls = 0
    /\ last = [p \in Procs |-> NoHistory]
    /\ saved = EmptyMap

\* ----------------------------------------------------------- sync.RWMutex
\* a handler that has called mu.Lock() and is blocked in it
WriterWaits == \E q \in Procs : pc[q] \in {"insert_wait", "save_wait", "delete_wait"}

\* mu.RLock() returns: no writer holds the mutex and none is pending
CanRLock(p) == mu.writer = None /\ ~WriterWaits

\* mu.Lock() returns: no writer and no reader holds the mutex
NoLockGuard(p) == TRUE
CanLock(p) == mu.writer = None /\ mu.readers = {}

RLock(p) == [mu EXCEPT !.readers = @ \cup {p}]
RUnlock(p) == [mu EXCEPT !.readers = @ \ {p}]
Lock(p) == [mu EXCEPT !.writer = p]
Unlock(p) == [mu EXCEPT !.writer = None]

\* ------------------------------------------------------- statement results
\* INSERT ... VALUES (NULL, ...): the rowid sqlite gives an INTEGER PRIMARY KEY
\* column that is not AUTOINCREMENT is one more than the largest in the table.
MaxRowId == IF DOMAIN rows = {} THEN 0
            ELSE CHOOSE i \in DOMAIN rows : \A j \in DOMAIN rows : j <= i
LastInsertId == MaxRowId + 1

\* handlers inside insert that have not executed its INSERT yet
InsertsInFlight ==
    Cardinality({q \in Procs : pc[q] \in {"insert_wait", "insert"}})

\* SELECT ... WHERE id = ?: the row scans
RowFound(id) == ParamId(id) \in DOMAIN rows
Row(id) == rows[ParamId(id)]

\* ---------------------------------------------------------------- lookup
\* load: time.Until(sess.expiresOn) < 0
ExpiredAtEquality(row, t) == row.expiresOn - t <= 0
Expired(row, t) == row.expiresOn - t < 0

\* load: DecodeMulti into session.Values, then the three synthesized entries
LoadWithoutData(row) ==
    Put(Put(Put(EmptyMap, "created_on", row.createdOn),
            "modified_on", row.modifiedOn), "expires_on", row.expiresOn)
LoadValues(row) ==
    Put(Put(Put(DecodeMulti(SessionName, row.data), "created_on", row.createdOn),
            "modified_on", row.modifiedOn), "expires_on", row.expiresOn)

\* load executes the SELECT and no other statement: the table after it
RowsAfterLoadSweep(id) ==
    IF RowFound(id) /\ Expired(Row(id), now)
    THEN [i \in (DOMAIN rows) \ {ParamId(id)} |-> rows[i]]
    ELSE rows
RowsAfterLoad(id) == rows

\* Store.New up to the call of load: the session is created, the cookie is
\* read and decoded into session.ID.
NewCall(p) ==
    /\ pc[p] = "idle"
    /\ calls < MaxCalls
    /\ calls' = calls + 1
    /\ \E c \in {NoCookie} \cup {SetCookie(v, StoreMaxAge) : v \in jar \cup {BadToken}} :
        IF ~c.set
        THEN \* r.Cookie(name) fails: no cookie on the request
             /\ sess' = [sess EXCEPT ![p] = NewSession]
             /\ err' = [err EXCEPT ![p] = "nil"]
             /\ pc' = [pc EXCEPT ![p] = "session"]
             /\ last' = [last EXCEPT ![p] = History("new", -1, FALSE)]
        ELSE IF ~DecodeOk(SessionName, c.value)
        THEN \* DecodeMulti fails: its error is what New returns
             /\ sess' = [sess EXCEPT ![p] = NewSession]
             /\ err' = [err EXCEPT ![p] = "decode"]
             /\ pc' = [pc EXCEPT ![p] = "session"]
             /\ last' = [last EXCEPT ![p] = History("badcookie", -1, FALSE)]
        ELSE /\ sess' = [sess EXCEPT ![p] =
                            [NewSession EXCEPT !.ID = DecodeMulti(SessionName, c.value)]]
             /\ err' = [err EXCEPT ![p] = "nil"]
             /\ pc' = [pc EXCEPT ![p] = "load_wait"]
             /\ last' = [last EXCEPT ![p] = NoHistory]
    /\ resp' = [resp EXCEPT ![p] = NoCookie]
    /\ UNCHANGED <<now, rows, mu, jar, saved>>

\* load: m.mu.RLock()
LoadRLock(p) ==
    /\ pc[p] = "load_wait"
    /\ CanRLock(p)
    /\ mu' = RLock(p)
    /\ pc' = [pc EXCEPT ![p] = "load"]
    /\ UNCHANGED <<now, rows, sess, err, resp, jar, calls, last, saved>>

\* load from QueryRow to its return (the deferred RUnlock included), and the
\* rest of New: IsNew = false when load returned nil, the error dropped if not.
LoadExec(p) ==
    /\ pc[p] = "load"
    /\ LET id == sess[p].ID IN
        IF ~RowFound(id)
        THEN \* row.Scan returns sql.ErrNoRows
             /\ sess' = sess
             /\ last' = [last EXCEPT ![p] = History("notfound", -1, FALSE)]
        ELSE IF Expired(Row(id), now)
        THEN \* SessionExpired
             /\ sess' = sess
             /\ last' = [last EXCEPT ![p] =
                            History("expired", Row(id).expiresOn, TRUE)]
        ELSE /\ sess' = [sess EXCEPT ![p].Values = LoadValues(Row(id)),
                                     ![p].IsNew = FALSE]
             /\ last' = [last EXCEPT ![p] =
                            History("loaded", Row(id).expiresOn, TRUE)]
    /\ rows' = RowsAfterLoad(sess[p].ID)
    /\ err' = [err EXCEPT ![p] = "nil"]
    /\ mu' = RUnlock(p)
    /\ pc' = [pc EXCEPT ![p] = "session"]
    /\ UNCHANGED <<now, resp, jar, calls, saved>>

\* ------------------------------------------------------------ write path
\* crOn := session.Values["created_on"]; now when it is nil
CreatedOn(values, t) == IF Has(values, "created_on") THEN values["created_on"] ELSE t

\* insert: exOn := session.Values["expires_on"]; now + MaxAge when it is nil
InsertExpiresClamped(values, maxAge, t) ==
    IF Has(values, "expires_on") THEN Max(values["expires_on"], t + maxAge) ELSE t + maxAge
InsertExpires(values, maxAge, t) ==
    IF Has(values, "expires_on") THEN values["expires_on"] ELSE t + maxAge

\* save: the same, and a carried expires_on before now + MaxAge is replaced
\* by now + MaxAge
UpdateExpiresUnclamped(values, maxAge, t) ==
    IF Has(values, "expires_on") THEN values["expires_on"] ELSE t + maxAge
UpdateExpires(values, maxAge, t) ==
    IF ~Has(values, "expires_on") THEN t + maxAge
    ELSE IF values["expires_on"] - (t + maxAge) < 0 THEN t + maxAge
    ELSE values["expires_on"]

\* what insert and save encode into session_data
InsertData(values) == EncodeMulti(SessionName, StripReserved(values))
UpdateData(values, old) == EncodeMulti(SessionName, StripReserved(values))

\* UPDATE sessions SET session_data = ?, created_on = ?, expires_on = ?
UpdateRowTouched(row, data, createdOn, expiresOn) ==
    [row EXCEPT !.data = data, !.createdOn = createdOn, !.expiresOn = expiresOn,
                !.modifiedOn = now]
UpdateRow(row, data, createdOn, expiresOn) ==
    [row EXCEPT !.data = data, !.createdOn = createdOn, !.expiresOn = expiresOn]

\* Save after insert or save returned nil: EncodeMulti(name, session.ID) and
\* http.SetCookie with the session's options
SaveCookieEmpty(id, maxAge) == SetCookie(EmptyValue, maxAge)
SaveCookie(id, maxAge) == SetCookie(EncodeMulti(SessionName, id), maxAge)

\* The sessions a caller may pass to Save, having session s: it may have put
\* a value under a key of its own, put an expires_on in the value map, and
\* changed session.Options.MaxAge.
CallerValues(m) ==
    {m} \cup {Put(m, k, v) : k \in UserKeys, v \in UserVals}
CallerSessions(s) ==
    {[s EXCEPT !.Values = w, !.MaxAge = a] :
        w \in UNION {{v} \cup {Put(v, "expires_on", t) : t \in CallerExpires} :
                        v \in CallerValues(s.Values)},
        a \in {s.MaxAge} \cup CallerMaxAges}

\* Store.Save up to the first mu.Lock(): Delete when MaxAge <= 0, insert when
\* the session has no ID, save otherwise.
SavePath(s) == IF s.MaxAge <= 0 THEN "delete_wait"
               ELSE IF s.ID = "" THEN "insert_wait"
               ELSE "save_wait"

SaveCall(p) ==
    /\ pc[p] = "session"
    /\ calls < MaxCalls
    /\ calls' = calls + 1
    /\ \E s \in CallerSessions(sess[p]) :
        /\ SavePath(s) = "insert_wait" => MaxRowId + InsertsInFlight < MaxId
        /\ sess' = [sess EXCEPT ![p] = s]
        /\ pc' = [pc EXCEPT ![p] = SavePath(s)]
    /\ last' = [last EXCEPT ![p] = NoHistory]
    /\ resp' = [resp EXCEPT ![p] = NoCookie]
    /\ err' = [err EXCEPT ![p] = "nil"]
    /\ UNCHANGED <<now, rows, mu, jar, saved>>

\* Store.Delete called by the application, up to mu.Lock()
DeleteCall(p) ==
    /\ pc[p] = "session"
    /\ calls < MaxCalls
    /\ calls' = calls + 1
    /\ pc' = [pc EXCEPT ![p] = "delete_wait"]
    /\ last' = [last EXCEPT ![p] = NoHistory]
    /\ resp' = [resp EXCEPT ![p] = NoCookie]
    /\ err' = [err EXCEPT ![p] = "nil"]
    /\ UNCHANGED <<now, rows, mu, sess, jar, saved>>

\* insert: m.mu.Lock()
InsertLock(p) ==
    /\ pc[p] = "insert_wait"
    /\ CanLock(p)
    /\ mu' = Lock(p)
    /\ pc' = [pc EXCEPT ![p] = "insert"]
    /\ UNCHANGED <<now, rows, sess, err, resp, jar, calls, last, saved>>

\* insert from its first statement to its return (the deferred Unlock
\* included), then the rest of Save: the cookie with the encoded ID.
InsertExec(p) ==
    /\ pc[p] = "insert"
    /\ LET s == sess[p]
           createdOn == CreatedOn(s.Values, now)
           expiresOn == InsertExpires(s.Values, s.MaxAge, now)
           exOn == IF Has(s.Values, "expires_on") THEN s.Values["expires_on"] ELSE -1
           id == LastInsertId
           row == [data |-> InsertData(s.Values), createdOn |-> createdOn,
                   modifiedOn |-> createdOn, expiresOn |-> expiresOn]
       IN /\ rows' = Put(rows, id, row)
          /\ sess' = [sess EXCEPT ![p].Values = StripReserved(@),
                                  ![p].ID = Sprintf(id)]
          /\ resp' = [resp EXCEPT ![p] = SaveCookie(Sprintf(id), s.MaxAge)]
          /\ jar' = jar \cup {EncodeMulti(SessionName, Sprintf(id))}
          /\ last' = [last EXCEPT ![p] = History("insert", exOn, TRUE)]
          /\ saved' = Put(saved, id, StripReserved(s.Values))
    /\ err' = [err EXCEPT ![p] = "nil"]
    /\ mu' = Unlock(p)
    /\ pc' = [pc EXCEPT ![p] = "session"]
    /\ UNCHANGED <<now, calls>>

\* insert or save returns an error after the reserved keys were deleted from
\* session.Values (the deferred Unlock included), and Save returns it before
\* it encodes the ID: no cookie.
FailedSaveEmitsCookie(p, e) ==
    /\ sess' = [sess EXCEPT ![p].Values = StripReserved(@)]
    /\ err' = [err EXCEPT ![p] = e]
    /\ last' = [last EXCEPT ![p] = History("failed", -1, FALSE)]
    /\ resp' = [resp EXCEPT ![p] = SaveCookie(sess[p].ID, sess[p].MaxAge)]
    /\ mu' = Unlock(p)
    /\ pc' = [pc EXCEPT ![p] = "session"]
    /\ UNCHANGED <<now, rows, jar, calls, saved>>
FailedSave(p, e) ==
    /\ sess' = [sess EXCEPT ![p].Values = StripReserved(@)]
    /\ err' = [err EXCEPT ![p] = e]
    /\ last' = [last EXCEPT ![p] = History("failed", -1, FALSE)]
    /\ mu' = Unlock(p)
    /\ pc' = [pc EXCEPT ![p] = "session"]
    /\ UNCHANGED <<now, rows, resp, jar, calls, saved>>

\* insert: EncodeMulti fails (encErr) or m.create.Exec fails (insErr)
InsertFails(p) ==
    /\ pc[p] = "insert"
    /\ \E e \in {"encErr", "insErr"} : FailedSave(p, e)

\* save: EncodeMulti fails (encErr) or m.update.Exec fails (updErr)
SaveFails(p) ==
    /\ pc[p] = "save"
    /\ ~sess[p].IsNew
    /\ \E e \in {"encErr", "updErr"} : FailedSave(p, e)

\* save: m.mu.Lock()
SaveLock(p) ==
    /\ pc[p] = "save_wait"
    /\ CanLock(p)
    /\ mu' = Lock(p)
    /\ pc' = [pc EXCEPT ![p] = "save"]
    /\ UNCHANGED <<now, rows, sess, err, resp, jar, calls, last, saved>>

\* save, holding the mutex, when session.IsNew: it calls insert, whose first
\* statement is m.mu.Lock().
SaveCallsInsert(p) ==
    /\ pc[p] = "save"
    /\ sess[p].IsNew
    /\ pc' = [pc EXCEPT ![p] = "insert_wait"]
    /\ UNCHANGED <<now, rows, mu, sess, err, resp, jar, calls, last, saved>>

\* save from the IsNew test (false) to its return (the deferred Unlock
\* included), then the rest of Save: the cookie with the encoded ID.
SaveExec(p) ==
    /\ pc[p] = "save"
    /\ ~sess[p].IsNew
    /\ LET s == sess[p]
           createdOn == CreatedOn(s.Values, now)
           expiresOn == UpdateExpires(s.Values, s.MaxAge, now)
           exOn == IF Has(s.Values, "expires_on") THEN s.Values["expires_on"] ELSE -1
           id == ParamId(s.ID)
       IN /\ rows' = IF id \in DOMAIN rows
                     THEN [rows EXCEPT ![id] =
                              UpdateRow(@, UpdateData(s.Values, @.data),
                                        createdOn, expiresOn)]
                     ELSE rows
          /\ sess' = [sess EXCEPT ![p].Values = StripReserved(@)]
          /\ resp' = [resp EXCEPT ![p] = SaveCookie(s.ID, s.MaxAge)]
          /\ jar' = jar \cup {EncodeMulti(SessionName, s.ID)}
          /\ last' = [last EXCEPT ![p] =
                         History("update", exOn, id \in DOMAIN rows)]
          /\ saved' = IF id \in DOMAIN rows THEN Put(saved, id, StripReserved(s.Values))
                      ELSE saved
    /\ err' = [err EXCEPT ![p] = "nil"]
    /\ mu' = Unlock(p)
    /\ pc' = [pc EXCEPT ![p] = "session"]
    /\ UNCHANGED <<now, calls>>

\* Delete: m.mu.Lock()
DeleteLock(p) ==
    /\ pc[p] = "delete_wait"
    /\ CanLock(p)
    /\ mu' = Lock(p)
    /\ pc' = [pc EXCEPT ![p] = "delete"]
    /\ UNCHANGED <<now, rows, sess, err, resp, jar, calls, last, saved>>

\* DELETE FROM sessions WHERE id = ?
DeleteNothing(id) == rows
DeleteAllRows(id) == EmptyMap
DeleteRow(id) == [i \in (DOMAIN rows) \ {ParamId(id)} |-> rows[i]]

\* Delete from the expiring cookie to its return (the deferred Unlock included)
DeleteExec(p) ==
    /\ pc[p] = "delete"
    /\ resp' = [resp EXCEPT ![p] = SetCookie(EmptyValue, -1)]
    /\ sess' = [sess EXCEPT ![p].Values = EmptyMap]
    /\ rows' = DeleteRow(sess[p].ID)
    /\ saved' = [i \in (DOMAIN saved) \ {ParamId(sess[p].ID)} |-> saved[i]]
    /\ last' = [last EXCEPT ![p] =
                   History("delete", -1, RowFound(sess[p].ID))]
    /\ err' = [err EXCEPT ![p] = "nil"]
    /\ mu' = Unlock(p)
    /\ pc' = [pc EXCEPT ![p] = "session"]
    /\ UNCHANGED <<now, jar, calls>>

\* The handler is done with its request; its session is dropped.
Done(p) ==
    /\ pc[p] = "session"
    /\ pc' = [pc EXCEPT ![p] = "idle"]
    /\ sess' = [sess EXCEPT ![p] = NewSession]
    /\ err' = [err EXCEPT ![p] = "nil"]
    /\ resp' = [resp EXCEPT ![p] = NoCookie]
    /\ last' = [last EXCEPT ![p] = NoHistory]
    /\ UNCHANGED <<now, rows, mu, jar, calls, saved>>

\* time passes
Tick ==
    /\ now < MaxTime
    /\ now' = now + 1
    /\ UNCHANGED <<rows, mu, pc, sess, err, resp, jar, calls, last, saved>>

Next ==
    \/ Tick
    \/ \E p \in Procs :
        \/ NewCall(p)
        \/ LoadRLock(p)
        \/ LoadExec(p)
        \/ SaveCall(p)
        \/ DeleteCall(p)
        \/ InsertLock(p)
        \/ InsertExec(p)
        \/ InsertFails(p)
        \/ SaveLock(p)
        \/ SaveCallsInsert(p)
        \/ SaveExec(p)
        \/ SaveFails(p)
        \/ DeleteLock(p)
        \/ DeleteExec(p)
        \/ Done(p)

Spec == Init /\ [][Next]_vars

\* ------------------------------------------------------------ properties
Waiting == {"insert_wait", "save_wait", "delete_wait"}
Reading(p) == pc[p] = "load"
Writing(p) == pc[p] \in {"insert", "save", "delete"}

\* the steps in which a call returns (insert and save: with a nil error)
LoadReturns(p) == pc[p] = "load" /\ pc'[p] = "session"
InsertReturns(p) == pc[p] = "insert" /\ pc'[p] = "session" /\ err'[p] = "nil"
UpdateReturns(p) == pc[p] = "save" /\ pc'[p] = "session" /\ err'[p] = "nil"
DeleteReturns(p) == pc[p] = "delete" /\ pc'[p] = "session"

\* the expires_on the value map carries into a save, when there is one
Carries(p) == Has(sess[p].Values, "expires_on")
Carried(p) == sess[p].Values["expires_on"]
Floor(p) == now + sess[p].MaxAge

\* C1: a lookup with the cookie of a saved session, made while the row is
\* there and now <= its expires_on, returns is_new = false, the identifier of
\* the cookie and, apart from the reserved keys, the value map of the save
\* that last wrote the row.
C1_RoundTrip ==
    [][\A p \in Procs :
        (/\ LoadReturns(p)
         /\ RowFound(sess[p].ID)
         /\ now <= Row(sess[p].ID).expiresOn)
        => /\ ParamId(sess[p].ID) \in DOMAIN saved
           /\ ~sess'[p].IsNew
           /\ sess'[p].ID = sess[p].ID
           /\ err'[p] = "nil"
           /\ StripReserved(sess'[p].Values) = saved[ParamId(sess[p].ID)]]_vars

C1_Witness ==
    \E p \in Procs :
        /\ pc[p] = "session"
        /\ last[p].op = "loaded"
        /\ ~sess[p].IsNew
        /\ Has(sess[p].Values, "k")
        /\ RowFound(sess[p].ID)
        /\ StripReserved(sess[p].Values) = saved[ParamId(sess[p].ID)]

\* C2: a lookup without a cookie returns a new session with an empty
\* identifier and an empty value map; the first save of such a session with
\* max-age > 0 adds exactly one row, sets the identifier to the non-empty id
\* of that row and emits a cookie that carries it.
C2_FirstSave ==
    [][\A p \in Procs :
        /\ (pc[p] = "idle" /\ pc'[p] = "session" /\ err'[p] = "nil")
           => sess'[p].IsNew /\ sess'[p].ID = "" /\ sess'[p].Values = EmptyMap
        /\ (InsertReturns(p) /\ sess[p].ID = "")
           => \E id \in 1..MaxId :
                /\ id \notin DOMAIN rows
                /\ DOMAIN rows' = DOMAIN rows \cup {id}
                /\ \A i \in DOMAIN rows : rows'[i] = rows[i]
                /\ sess'[p].ID = Sprintf(id)
                /\ sess'[p].ID # ""
                /\ ParamId(sess'[p].ID) = id
                /\ err'[p] = "nil"
                /\ resp'[p].set
                /\ DecodeOk(SessionName, resp'[p].value)
                /\ DecodeMulti(SessionName, resp'[p].value) = sess'[p].ID
                /\ resp'[p].maxAge = sess[p].MaxAge]_vars

C2_Witness ==
    \E p \in Procs :
        /\ pc[p] = "session"
        /\ last[p].op = "insert"
        /\ sess[p].IsNew
        /\ sess[p].ID # ""
        /\ RowFound(sess[p].ID)
        /\ resp[p].set
        /\ DecodeMulti(SessionName, resp[p].value) = sess[p].ID

\* C3: a lookup whose cookie names a row that exists returns is_new = true,
\* with no error and an empty value map, exactly when now > expires_on; at
\* now = expires_on the session loads with is_new = false.
C3_ExpiryFallback ==
    [][\A p \in Procs :
        (LoadReturns(p) /\ RowFound(sess[p].ID))
        => /\ sess'[p].IsNew <=> (now > Row(sess[p].ID).expiresOn)
           /\ err'[p] = "nil"
           /\ sess'[p].IsNew => sess'[p].Values = EmptyMap
           /\ now = Row(sess[p].ID).expiresOn => ~sess'[p].IsNew]_vars

C3_Witness ==
    \E p \in Procs :
        /\ pc[p] = "session"
        /\ last[p].op = "expired"
        /\ RowFound(sess[p].ID)
        /\ now > Row(sess[p].ID).expiresOn
        /\ sess[p].IsNew
        /\ sess[p].Values = EmptyMap
        /\ err[p] = "nil"

\* C4: a save with max-age <= 0 goes to Delete and never to insert or save;
\* Delete removes the row of the session's identifier, writes no other row and
\* emits a cookie with max-age -1; a lookup whose cookie names no row returns
\* is_new = true and no error.
C4_DeleteThroughSave ==
    [][\A p \in Procs :
        /\ (pc[p] = "session" /\ pc'[p] \in Waiting /\ sess'[p].MaxAge <= 0)
           => pc'[p] = "delete_wait"
        /\ pc[p] = "delete_wait" => pc'[p] \in {"delete_wait", "delete"}
        /\ pc[p] = "delete" => pc'[p] \in {"delete", "session"}
        /\ DeleteReturns(p)
           => /\ DOMAIN rows' = DOMAIN rows \ {ParamId(sess[p].ID)}
              /\ \A i \in DOMAIN rows' : rows'[i] = rows[i]
              /\ resp'[p].set
              /\ resp'[p].maxAge = -1
              /\ err'[p] = "nil"
        /\ (LoadReturns(p) /\ ~RowFound(sess[p].ID))
           => sess'[p].IsNew /\ err'[p] = "nil"]_vars

C4_Witness ==
    \E p \in Procs :
        /\ pc[p] = "session"
        /\ last[p].op = "delete"
        /\ last[p].hit
        /\ sess[p].MaxAge <= 0
        /\ sess[p].ID # ""
        /\ ~RowFound(sess[p].ID)
        /\ resp[p].set
        /\ resp[p].maxAge = -1

\* C5: every call of lookup, save and delete returns: no handler is blocked
\* in mu.Lock() on the mutex that it holds itself (nobody else can release
\* it), whatever session it passed to Save.
C5_EveryCallReturns ==
    \A p \in Procs : pc[p] \in Waiting => mu.writer # p

\* C6: the handlers inside a guarded body are none, or exactly one of insert,
\* save and Delete, or one or more loads.
C6_ReadersWriterExclusion ==
    \A p, q \in Procs :
        (p # q /\ Writing(p)) => (~Writing(q) /\ ~Reading(q))

C6_Witness ==
    \E p, q \in Procs :
        /\ p # q
        /\ Writing(p)
        /\ mu.writer = p
        /\ pc[q] \in Waiting \cup {"load_wait"}

\* C7: when save takes the update path on a row that exists, the persisted
\* expires_on is >= now + max-age; it is now + max-age if the value map
\* carries an earlier expires_on, and the carried value otherwise.
C7_RenewalClamp ==
    [][\A p \in Procs :
        (UpdateReturns(p) /\ RowFound(sess[p].ID))
        => LET e == rows'[ParamId(sess[p].ID)].expiresOn IN
           /\ err'[p] = "nil"
           /\ e >= Floor(p)
           /\ (Carries(p) /\ Carried(p) < Floor(p)) => e = Floor(p)
           /\ (Carries(p) /\ Carried(p) >= Floor(p)) => e = Carried(p)]_vars

C7_Witness ==
    \E p \in Procs :
        /\ pc[p] = "session"
        /\ last[p].op = "update"
        /\ last[p].hit
        /\ last[p].exOn # -1
        /\ last[p].exOn < now + sess[p].MaxAge
        /\ RowFound(sess[p].ID)
        /\ Row(sess[p].ID).expiresOn = now + sess[p].MaxAge

\* C8 as claimed: after every save that writes a row, by insert or by update,
\* the persisted expires_on is the later of the carried expires_on (when
\* present) and now + max-age.
C8_LaterOfBoth ==
    [][\A p \in Procs :
        /\ InsertReturns(p)
           => rows'[ParamId(sess'[p].ID)].expiresOn =
                 (IF Carries(p) THEN Max(Carried(p), Floor(p)) ELSE Floor(p))
        /\ (UpdateReturns(p) /\ RowFound(sess[p].ID))
           => rows'[ParamId(sess[p].ID)].expiresOn =
                 (IF Carries(p) THEN Max(Carried(p), Floor(p)) ELSE Floor(p))]_vars

\* C8 as amended: an update persists the later of the carried expires_on
\* (when present) and now + max-age; an insert persists the carried
\* expires_on when present, also when it is earlier than now + max-age, and
\* now + max-age otherwise.
C8_ExpiryRule ==
    [][\A p \in Procs :
        /\ InsertReturns(p)
           => rows'[ParamId(sess'[p].ID)].expiresOn =
                 (IF Carries(p) THEN Carried(p) ELSE Floor(p))
        /\ (UpdateReturns(p) /\ RowFound(sess[p].ID))
           => rows'[ParamId(sess[p].ID)].expiresOn =
                 (IF Carries(p) THEN Max(Carried(p), Floor(p)) ELSE Floor(p))]_vars

C8_Witness ==
    \E p \in Procs :
        /\ pc[p] = "session"
        /\ last[p].op = "insert"
        /\ last[p].exOn # -1
        /\ last[p].exOn < now + sess[p].MaxAge
        /\ RowFound(sess[p].ID)
        /\ Row(sess[p].ID).expiresOn = last[p].exOn

\* C9: a save that updates a row never decreases the row's expires_on.
C9_MonotonicExpiry ==
    [][\A p \in Procs :
        (UpdateReturns(p) /\ RowFound(sess[p].ID))
        => rows'[ParamId(sess[p].ID)].expiresOn >= Row(sess[p].ID).expiresOn]_vars

\* C10: the data of every stored row decodes to a value map without the keys
\* created_on, modified_on and expires_on.
C10_ReservedNeverPersisted ==
    \A id \in DOMAIN rows :
        /\ DecodeOk(SessionName, rows[id].data)
        /\ DOMAIN DecodeMulti(SessionName, rows[id].data) \cap Reserved = {}

C10_Witness ==
    \E p \in Procs :
        /\ pc[p] = "session"
        /\ last[p].op \in {"insert", "update"}
        /\ last[p].hit
        /\ last[p].exOn # -1
        /\ RowFound(sess[p].ID)
        /\ Has(DecodeMulti(SessionName, Row(sess[p].ID).data), "k")

\* the lookups: what Store.New did
Lookups == {"new", "badcookie", "notfound", "expired", "loaded"}

\* C11: every lookup returns a session and no error, and is_new = false
\* exactly when the cookie decoded and the row was found, not expired and
\* decoded.
C11_LookupNeverFails ==
    \A p \in Procs :
        (pc[p] = "session" /\ last[p].op \in Lookups)
        => /\ err[p] = "nil"
           /\ sess[p].IsNew <=> last[p].op # "loaded"

\* C12: when the cookie decodes and the load finds no row or an expired row,
\* the session returned is the one a request without cookie gets: is_new =
\* true, empty identifier, empty value map.
C12_DeadCookieIsNoCookie ==
    \A p \in Procs :
        (pc[p] = "session" /\ last[p].op \in {"notfound", "expired"})
        => /\ sess[p].IsNew
           /\ sess[p].ID = ""
           /\ sess[p].Values = EmptyMap

\* C13: Delete (also when reached from Save with max-age <= 0) on a session
\* with an empty identifier returns no error, leaves every stored row as it
\* was, empties the value map and emits a cookie with max-age -1, while the
\* session's own max-age stays what it was.
C13_DeleteNeverPersisted ==
    [][\A p \in Procs :
        (DeleteReturns(p) /\ sess[p].ID = "")
        => /\ err'[p] = "nil"
           /\ rows' = rows
           /\ sess'[p].Values = EmptyMap
           /\ resp'[p].set
           /\ resp'[p].maxAge = -1
           /\ sess'[p].MaxAge = sess[p].MaxAge
           /\ sess'[p].ID = ""]_vars

C13_Witness ==
    \E p \in Procs :
        /\ pc[p] = "session"
        /\ last[p].op = "delete"
        /\ ~last[p].hit
        /\ sess[p].ID = ""
        /\ sess[p].MaxAge = 0
        /\ sess[p].Values = EmptyMap
        /\ DOMAIN rows # {}
        /\ resp[p].set
        /\ resp[p].maxAge = -1

\* C14: a save with max-age > 0 goes to insert exactly when the identifier is
\* empty; with a non-empty identifier it runs the UPDATE of save and returns,
\* whatever is_new is, leaving the number of rows and the identifier as they
\* were.
C14_InsertOnlyOnEmptyId ==
    [][\A p \in Procs :
        /\ (pc[p] = "session" /\ pc'[p] \in {"insert_wait", "save_wait"})
           => (pc'[p] = "insert_wait" <=> sess'[p].ID = "")
        /\ pc[p] = "save" => pc'[p] \in {"save", "session"}
        /\ UpdateReturns(p)
           => DOMAIN rows' = DOMAIN rows /\ sess'[p].ID = sess[p].ID
        /\ DOMAIN rows' \ DOMAIN rows # {}
           => \E q \in Procs : InsertReturns(q) /\ sess[q].ID = ""]_vars

\* C15: no save that updates a row changes the row's created_on.
C15_CreatedOnWriteOnce ==
    [][\A p \in Procs :
        (UpdateReturns(p) /\ RowFound(sess[p].ID))
        => rows'[ParamId(sess[p].ID)].createdOn = Row(sess[p].ID).createdOn]_vars

\* C16: an insert writes modified_on equal to the created_on it writes, and
\* no step changes the modified_on of a row that stays in the table.
C16_ModifiedOnFixed ==
    [][/\ \A p \in Procs :
            InsertReturns(p)
            => rows'[ParamId(sess'[p].ID)].modifiedOn =
                  rows'[ParamId(sess'[p].ID)].createdOn
       /\ \A id \in DOMAIN rows \cap DOMAIN rows' :
            rows'[id].modifiedOn = rows[id].modifiedOn]_vars

C16_Witness ==
    \E p \in Procs :
        /\ pc[p] = "session"
        /\ last[p].op = "update"
        /\ last[p].hit
        /\ RowFound(sess[p].ID)
        /\ Row(sess[p].ID).modifiedOn < now
        /\ Row(sess[p].ID).createdOn = now

\* C17: whenever a save with max-age > 0 returns nil, the table holds a row
\* whose id is the one in the cookie it emitted and whose data encodes the
\* session's value map of that save.
C17_CookieRowConsistency ==
    [][\A p \in Procs :
        (InsertReturns(p) \/ UpdateReturns(p))
        => /\ resp'[p].set
           /\ DecodeOk(SessionName, resp'[p].value)
           /\ LET id == ParamId(DecodeMulti(SessionName, resp'[p].value)) IN
                /\ id \in DOMAIN rows'
                /\ DecodeMulti(SessionName, rows'[id].data) =
                      StripReserved(sess[p].Values)]_vars

\* C18: when the encoding or the INSERT/UPDATE of a save with max-age > 0
\* fails, Save returns that error, emits no cookie, and leaves every stored
\* row and the session's identifier as they were.
C18_WritePathFailure ==
    [][\A p \in Procs :
        (pc[p] \in {"insert", "save"} /\ pc'[p] = "session" /\ err'[p] # "nil")
        => /\ err'[p] \in {"encErr", "insErr", "updErr"}
           /\ rows' = rows
           /\ ~resp'[p].set
           /\ jar' = jar
           /\ sess'[p].ID = sess[p].ID
           /\ mu'.writer = None]_vars

C18_Witness ==
    \E p \in Procs :
        /\ pc[p] = "session"
        /\ last[p].op = "failed"
        /\ err[p] = "updErr"
        /\ ~resp[p].set
        /\ sess[p].ID # ""
        /\ RowFound(sess[p].ID)

\* C19: no step of a lookup adds, changes or removes a stored row, and a row
\* leaves the table only in the step in which a Delete for its id returns.
C19_LookupReadOnly ==
    [][/\ \A p \in Procs :
            (pc[p] \in {"idle", "load_wait", "load"} /\ pc'[p] # pc[p])
            => rows' = rows
       /\ \A id \in DOMAIN rows \ DOMAIN rows' :
            \E p \in Procs : DeleteReturns(p) /\ ParamId(sess[p].ID) = id]_vars

C19_Witness ==
    \E p \in Procs :
        /\ pc[p] = "session"
        /\ last[p].op = "expired"
        /\ RowFound(sess[p].ID)
        /\ last[p].exOn = Row(sess[p].ID).expiresOn
        /\ Row(sess[p].ID).expiresOn < now

\* C20: the identifier an insert assigns is never one the store assigned
\* before, so the cookie of a deleted row never names a row again.
C20_IdNeverReused ==
    [][\A p \in Procs :
        InsertReturns(p) => EncodeMulti(SessionName, sess'[p].ID) \notin jar]_vars

====
